---- MODULE Spec2Model ----
(***************************************************************************)
(* State-machine model of homebridge-pando-hood: the per-hood accessory    *)
(* handler (device shadow, command debouncer, command cooldown, auto-light *)
(* and auto-timer suppression, online flag) and the platform's polling     *)
(* loop with its consecutive-failure counter.                              *)
(*                                                                         *)
(* Time is the millisecond clock read by Date.now().  The state is kept up  *)
(* to a shift of that clock: every stored instant (the due time of a       *)
(* setTimeout, commandCooldownUntil) is held as its distance in ms from    *)
(* the present, so `Date.now() + X` is the distance X and                  *)
(* `Date.now() < instant` is `0 < distance`; an instant that has passed is *)
(* held as 0.  A due timer runs before the clock moves on and before any   *)
(* I/O callback is served, as in the timers phase of the event loop.       *)
(***************************************************************************)
EXTENDS Integers, Sequences, FiniteSets, TLC

\* ---------------------------------------------------------------------------
\* Program constants
\* ---------------------------------------------------------------------------
DEBOUNCE_MS == 500
COMMAND_COOLDOWN_MS == 3000
DEFAULT_TIMER_DURATION == 900
OFFLINE_THRESHOLD == 3
\* Delay of the two suppression checks: DEBOUNCE_MS + 1500.
SUPPRESS_EXTRA_MS == 1500
SuppressDelay == DEBOUNCE_MS + SUPPRESS_EXTRA_MS

\* ---------------------------------------------------------------------------
\* Bounds of the model
\* ---------------------------------------------------------------------------
\* Intents and successful polls the environment may issue, per specification;
\* the consecutive-failure counter is followed up to MaxFailures (in
\* SpecOffline up to the threshold that marks the hoods offline).
\* MaxIntervalSec is the largest configured polling interval tried and
\* PercentMargin how far below 0 and above 100 the percentages tried reach.
MaxIntents == 2
MaxPolls == 1
OfflineIntents == 1
OfflinePolls == 1
GroupIntents == 1
GroupPolls == 1
TransportIntents == 1
TransportPolls == 2
PollingPolls == 2
LaunchPolls == 1
RestartIntents == 8
SessionIntents == 3
SessionPolls == 1
PairIntents == 1
PairPolls == 1
CooldownIntents == 1
CooldownPolls == 1
DebounceIntents == 2
OverlapPolls == 3
DiscoveryPolls == 1
SpeedIntents == 3
MaxFailures == 4
MaxIntervalSec == 302
PercentMargin == 2
\* Granularity of the clock: half a debounce window.
Tick == DEBOUNCE_MS \div 2

\* ---------------------------------------------------------------------------
\* Capability keys and capability maps (JS objects: partial maps key -> int)
\* ---------------------------------------------------------------------------
KOnOff == "device.onOff"
KFanSpeed == "device.fanSpeed"
KLightOnOff == "device.lightOnOff"
KTimerEnable == "device.timer.enable"
KTimerValue == "device.timerValue"

Keys == {KOnOff, KFanSpeed, KLightOnOff, KTimerEnable, KTimerValue}

Devices == {1, 2}

\* The empty object {}.
Empty == [k \in {} |-> 0]

\* obj[key] ?? dflt
Get(obj, key, dflt) == IF key \in DOMAIN obj THEN obj[key] ELSE dflt

\* JS truthiness of obj[key] (undefined and 0 are falsy).
Truthy(obj, key) == key \in DOMAIN obj /\ obj[key] # 0

\* Object.assign(target, params): keys of params overwrite, others are kept.
Assign(target, params) ==
    [k \in (DOMAIN target) \cup (DOMAIN params) |->
        IF k \in DOMAIN params THEN params[k] ELSE target[k]]

\* obj[key] = value
Put(obj, key, value) ==
    [k \in (DOMAIN obj) \cup {key} |-> IF k = key THEN value ELSE obj[k]]

Caps(onOff, speed, light, enable, value) ==
    [k \in Keys |->
        CASE k = KOnOff -> onOff
          [] k = KFanSpeed -> speed
          [] k = KLightOnOff -> light
          [] k = KTimerEnable -> enable
          [] OTHER -> value]

\* Capability maps a poll (or discovery) can report for one hood.
PollResults ==
    { Caps(0, 0, 0, 0, 0),      \* everything off
      Caps(0, 2, 0, 1, 0),      \* fan off, stale fanSpeed and timer.enable = 1
      Caps(1, 2, 1, 1, 600),    \* fan on, firmware auto-light and auto-timer
      Caps(1, 3, 0, 0, 0),      \* fan on, light and timer off
      [k \in {KOnOff} |-> 1] }  \* a response that carries only device.onOff

\* Capability maps discovery returns for a hood when its handler is built.
InitThings == {Caps(0, 0, 0, 0, 0), Caps(1, 2, 1, 1, 600)}

\* HomeKit RotationSpeed percentages the control surface sends.
FanPercents == {0, 50, 100}

\* ---------------------------------------------------------------------------
\* Pure helpers of the accessory
\* ---------------------------------------------------------------------------
\* Math.round(x / y) for x >= 0, y > 0 (round half up).
RoundDiv(x, y) == (2 * x + y) \div (2 * y)

Min(a, b) == IF a < b THEN a ELSE b
Max(a, b) == IF a > b THEN a ELSE b

fanSpeedToPercent(speed) == RoundDiv(speed * 100, 4)

\* A conversion that rounds to the nearest level without the floor of 1.
percentToFanSpeedNoFloor(percent) ==
    IF percent <= 0 THEN 0 ELSE Min(4, RoundDiv(percent, 25))

percentToFanSpeed(percent) ==
    IF percent <= 0 THEN 0 ELSE Min(4, Max(1, RoundDiv(percent, 25)))

\* The speed levels of the hood and the percentages the conversions are tried on.
SpeedLevels == 0..4

PercentInputs == (0 - PercentMargin)..(100 + PercentMargin)

\* conv before and after the two conversions were applied to its arguments.
NoConversion == [done |-> FALSE, speed |-> 0, percent |-> 0]

Converted(c) ==
    [done |-> TRUE, speed |-> c.speed, percent |-> c.percent,
     toPercent |-> fanSpeedToPercent(c.speed),
     back |-> percentToFanSpeed(fanSpeedToPercent(c.speed)),
     toSpeed |-> percentToFanSpeed(c.percent)]

\* Platform configs: pollingInterval absent or a number of seconds.
KPollingInterval == "pollingInterval"

Configs ==
    {Empty} \cup {[k \in {KPollingInterval} |-> n] : n \in 0..MaxIntervalSec}

\* intervalMs of startPolling.
PollingIntervalMs(cfg) == Max(Get(cfg, KPollingInterval, 30), 10) * 1000



\* ---------------------------------------------------------------------------
\* State
\* ---------------------------------------------------------------------------
VARIABLES
    acc,                  \* acc[d]: the PandoHoodAccessory handler of managed hood d
    activeAccessories,    \* PandoPlatform.activeAccessories (its keys)
    consecutiveFailures,  \* PandoPlatform.consecutiveFailures
    lastOp,               \* history: the callback that ran in the last step
    burst,                \* history: burst[d], the current burst of intents on hood d
    watch,                \* history: watch[d][i], what happened since timeouts[i] was set
    fanOffSince,          \* history: fanOffSince[d], hood d was switched off and not on again
    lastPoll,             \* history: the last poll response, while only the clock moved since
    pollTimer,            \* PandoPlatform.pollTimer: the setInterval handle is armed
    running,              \* the process is alive
    shutdownSeen,         \* history: the shutdown event was emitted
    config,               \* PandoPlatform.config (the keys the platform reads)
    intervalMs,           \* the period startPolling gave setInterval, 0 before it ran
    conv,                 \* the arguments and results of the fan speed conversions
    requests,             \* the getThings() calls of the polling loop and their order
    discovery,            \* how far discoverDevices has come: "pending", "done", "failed"
    intentsLeft,          \* remaining intents the environment may issue
    pollsLeft             \* remaining successful polls the environment may deliver

vars == <<acc, activeAccessories, consecutiveFailures, lastOp, burst, watch,
          fanOffSince, lastPoll, pollTimer, running, shutdownSeen, config,
          intervalMs, conv, requests, discovery, intentsLeft, pollsLeft>>

\* What no callback of a running platform touches.
launched == <<config, intervalMs, conv, discovery>>

\* Date.now(): the present is the origin of every stored instant.
now == 0

\* CommandDebouncer.timer = null
NoTimer == -1

NO_FAULT == 0
GENERAL_FAULT == 1

\* ---------------------------------------------------------------------------
\* Getters (pure functions of one accessory record)
\* ---------------------------------------------------------------------------
getFanActive(a) == IF Truthy(a.state, KOnOff) THEN 1 ELSE 0

\* A speed getter that reports the shadow level also while the fan is off.
getFanSpeedWhileOff(a) == fanSpeedToPercent(Get(a.state, KFanSpeed, 0))

getFanSpeed(a) ==
    IF ~Truthy(a.state, KOnOff) THEN 0
    ELSE fanSpeedToPercent(Get(a.state, KFanSpeed, 0))

getLightOn(a) == Get(a.state, KLightOnOff, 0) = 1

\* A timer getter that does not consult the suppression flag.
getTimerOnIgnoresFlag(a) == Get(a.state, KTimerEnable, 0) = 1

getTimerOn(a) ==
    IF a.suppressAutoTimer THEN FALSE
    ELSE Get(a.state, KTimerEnable, 0) = 1

getStatusFault(a) == IF a.online THEN NO_FAULT ELSE GENERAL_FAULT

\* The characteristic values pushStateToHomeKit hands to updateCharacteristic.
DerivedValues(a) ==
    [Active |-> getFanActive(a),
     RotationSpeed |-> getFanSpeed(a),
     StatusFault |-> getStatusFault(a),
     LightOn |-> getLightOn(a),
     TimerOn |-> getTimerOn(a)]

\* hk: the characteristic values last given to the control surface;
\* npush counts the calls of pushStateToHomeKit within one callback, and
\* pushedFaults lists the StatusFault values given to it within one callback.
pushStateToHomeKit(a) ==
    [a EXCEPT !.hk = DerivedValues(a), !.npush = a.npush + 1,
              !.pushedFaults = Append(a.pushedFaults, getStatusFault(a))]

\* ---------------------------------------------------------------------------
\* CommandDebouncer
\* ---------------------------------------------------------------------------
\* A debouncer in which the first value enqueued for a key wins.
EnqueuePendingFirstWins(pending, params) == Assign(params, pending)

\* Object.assign(this.pending, params)
EnqueuePending(pending, params) == Assign(pending, params)

\* clearTimeout(this.timer); this.timer = setTimeout(flush, delayMs)
EnqueueTimer(timer) == now + DEBOUNCE_MS

\* An enqueue that also starts the cooldown.
enqueueStartsCooldown(a, params) ==
    [a EXCEPT !.pending = EnqueuePending(a.pending, params),
              !.timer = EnqueueTimer(a.timer),
              !.commandCooldownUntil = now + COMMAND_COOLDOWN_MS]

enqueue(a, params) ==
    [a EXCEPT !.pending = EnqueuePending(a.pending, params),
              !.timer = EnqueueTimer(a.timer)]

\* ---------------------------------------------------------------------------
\* PandoHoodAccessory: constructor, updateState, setOnline
\* ---------------------------------------------------------------------------
SeedLastFanSpeed(capabilities) ==
    LET initialSpeed == Get(capabilities, KFanSpeed, 0)
    IN  IF initialSpeed > 0 THEN initialSpeed ELSE 1

NewAccessory(capabilities) ==
    LET a == [state |-> capabilities,
              lastFanSpeed |-> SeedLastFanSpeed(capabilities),
              pending |-> Empty,
              timer |-> NoTimer,
              commandCooldownUntil |-> 0,
              suppressAutoLight |-> FALSE,
              suppressAutoTimer |-> FALSE,
              online |-> TRUE,
              timeouts |-> <<>>,
              hk |-> [Active |-> 0, RotationSpeed |-> 0, StatusFault |-> NO_FAULT,
                      LightOn |-> FALSE, TimerOn |-> FALSE],
              npush |-> 0,
              pushedFaults |-> <<>>]
    IN  pushStateToHomeKit(a)

\* Date.now() < this.commandCooldownUntil
CooldownActive(a) == now < a.commandCooldownUntil

PolledLastFanSpeed(a, capabilities) ==
    LET polledSpeed == Get(capabilities, KFanSpeed, 0)
    IN  IF polledSpeed > 0 THEN polledSpeed ELSE a.lastFanSpeed

\* A poll handler that pushes during the cooldown as well.
updateStateAlwaysPushes(a, capabilities) ==
    pushStateToHomeKit(
        [a EXCEPT !.state = capabilities,
                  !.lastFanSpeed = PolledLastFanSpeed(a, capabilities)])

updateState(a, capabilities) ==
    IF CooldownActive(a)
    THEN [a EXCEPT !.state = capabilities]
    ELSE pushStateToHomeKit(
            [a EXCEPT !.state = capabilities,
                      !.lastFanSpeed = PolledLastFanSpeed(a, capabilities)])

setOnline(a, online) ==
    IF a.online = online THEN a
    ELSE [a EXCEPT !.online = online,
                   !.hk = [a.hk EXCEPT !.StatusFault =
                              IF online THEN NO_FAULT ELSE GENERAL_FAULT],
                   !.pushedFaults =
                       Append(a.pushedFaults,
                              IF online THEN NO_FAULT ELSE GENERAL_FAULT)]

\* ---------------------------------------------------------------------------
\* PandoHoodAccessory: set handlers (intents from the control surface)
\* ---------------------------------------------------------------------------
\* A setTimeout(..., DEBOUNCE_MS + 1500) closure; kind names the check it runs.
Timeout(kind) == [kind |-> kind, at |-> now + SuppressDelay]

\* A fan-off that leaves the timer and the suppression flags alone.
FanOffBranchKeepsTimer(a) == a

\* The `if (active === 0)` block of setFanActive.
FanOffBranch(a) ==
    [a EXCEPT !.suppressAutoLight = FALSE,
              !.suppressAutoTimer = FALSE,
              !.state = Put(a.state, KTimerEnable, 0)]

\* A fan-on command that carries the shadow speed, not the remembered one.
FanCommandsShadowSpeed(a, active) ==
    IF active = 1
    THEN [k \in {KOnOff, KFanSpeed} |->
             IF k = KOnOff THEN active ELSE Get(a.state, KFanSpeed, 0)]
    ELSE [k \in {KOnOff} |-> active]

\* The `commands` object setFanActive hands to the debouncer.
FanCommands(a, active) ==
    IF active = 1
    THEN [k \in {KOnOff, KFanSpeed} |-> IF k = KOnOff THEN active ELSE a.lastFanSpeed]
    ELSE [k \in {KOnOff} |-> active]

ArmAutoLight(a) ==
    [a EXCEPT !.suppressAutoLight = TRUE,
              !.timeouts = Append(a.timeouts, Timeout("light"))]

ArmAutoTimer(a) ==
    [a EXCEPT !.suppressAutoTimer = TRUE,
              !.timeouts = Append(a.timeouts, Timeout("timer"))]

setFanActive(a, active) ==
    LET lightWasOff == ~Truthy(a.state, KLightOnOff)
        fanIsCurrentlyOff == ~Truthy(a.state, KOnOff)
        timerWasOff == fanIsCurrentlyOff \/ ~Truthy(a.state, KTimerEnable)
        a1 == [a EXCEPT !.state = Put(a.state, KOnOff, active)]
        a2 == IF active = 0 THEN FanOffBranch(a1) ELSE a1
        a3 == IF active = 1
              THEN [a2 EXCEPT !.state = Put(a2.state, KFanSpeed, a2.lastFanSpeed)]
              ELSE a2
        a4 == enqueue(a3, FanCommands(a2, active))
        a5 == IF active = 1 /\ lightWasOff THEN ArmAutoLight(a4) ELSE a4
    IN  IF active = 1 /\ timerWasOff THEN ArmAutoTimer(a5) ELSE a5

\* What setFanSpeed enqueues: nothing while the shadow shows the hood off.
FanSpeedCommands(a, percent) ==
    IF ~Truthy(a.state, KOnOff) THEN Empty
    ELSE [k \in {KFanSpeed} |-> percentToFanSpeed(percent)]

\* A speed handler that forgets the speed it was given while the fan is off.
setFanSpeedForgets(a, percent) ==
    LET speed == percentToFanSpeed(percent)
        a1 == [a EXCEPT !.state = Put(a.state, KFanSpeed, speed)]
    IN  IF ~Truthy(a1.state, KOnOff) THEN a1
        ELSE enqueue(a1, FanSpeedCommands(a1, percent))

\* A speed handler that hands the level to the debouncer also while the fan
\* is off.
setFanSpeedAlwaysEnqueues(a, percent) ==
    LET speed == percentToFanSpeed(percent)
        a1 == [a EXCEPT !.state = Put(a.state, KFanSpeed, speed),
                        !.lastFanSpeed = IF speed > 0 THEN speed ELSE a.lastFanSpeed]
    IN  enqueue(a1, [k \in {KFanSpeed} |-> speed])

setFanSpeed(a, percent) ==
    LET speed == percentToFanSpeed(percent)
        a1 == [a EXCEPT !.state = Put(a.state, KFanSpeed, speed),
                        !.lastFanSpeed = IF speed > 0 THEN speed ELSE a.lastFanSpeed]
    IN  IF ~Truthy(a1.state, KOnOff) THEN a1
        ELSE enqueue(a1, FanSpeedCommands(a1, percent))

LightCommands(value) == [k \in {KLightOnOff} |-> IF value THEN 1 ELSE 0]

setLightOn(a, value) ==
    LET on == IF value THEN 1 ELSE 0
        a1 == IF value THEN [a EXCEPT !.suppressAutoLight = FALSE] ELSE a
        a2 == [a1 EXCEPT !.state = Put(a1.state, KLightOnOff, on)]
    IN  enqueue(a2, LightCommands(value))

\* A duration that falls back to the default only when the shadow has none.
TimerDurationNullish(a) == Get(a.state, KTimerValue, DEFAULT_TIMER_DURATION)

\* this.state["device.timerValue"] || DEFAULT_TIMER_DURATION
TimerDuration(a) ==
    IF Truthy(a.state, KTimerValue) THEN a.state[KTimerValue]
    ELSE DEFAULT_TIMER_DURATION

TimerCommands(a, value) ==
    IF value
    THEN [k \in {KTimerEnable, KTimerValue} |->
             IF k = KTimerEnable THEN 1 ELSE TimerDuration(a)]
    ELSE [k \in {KTimerEnable} |-> 0]

setTimerActive(a, value) ==
    IF value
    THEN LET duration == TimerDuration(a)
             a1 == [a EXCEPT !.suppressAutoTimer = FALSE]
             a2 == [a1 EXCEPT !.state =
                        Put(Put(a1.state, KTimerEnable, 1), KTimerValue, duration)]
         IN  enqueue(a2, TimerCommands(a, value))
    ELSE enqueue([a EXCEPT !.state = Put(a.state, KTimerEnable, 0)],
                 TimerCommands(a, value))

\* ---------------------------------------------------------------------------
\* Timer callbacks: debouncer flush and the two suppression checks.
\* Each returns the new accessory and the commands it decided on:
\* tx = TRUE when the command was handed to client.sendCommand,
\* tx = FALSE when it was dropped because the hood is marked offline.
\* ---------------------------------------------------------------------------
Cmd(by, params, tx) == [by |-> by, params |-> params, tx |-> tx]

\* A send callback without the offline guard.
DebouncerSendAlways(a, params) ==
    [a |-> [a EXCEPT !.commandCooldownUntil = now + COMMAND_COOLDOWN_MS],
     cmds |-> <<Cmd("flush", params, TRUE)>>]

\* The send callback given to the CommandDebouncer in the constructor.
DebouncerSend(a, params) ==
    IF ~a.online
    THEN [a |-> a, cmds |-> <<Cmd("flush", params, FALSE)>>]
    ELSE [a |-> [a EXCEPT !.commandCooldownUntil = now + COMMAND_COOLDOWN_MS],
          cmds |-> <<Cmd("flush", params, TRUE)>>]

\* A flush that sends the pending batch and keeps it.
flushKeepsPending(a) ==
    LET params == a.pending
        a1 == [a EXCEPT !.timer = NoTimer]
    IN  IF DOMAIN params = {} THEN [a |-> a1, cmds |-> <<>>]
        ELSE DebouncerSend(a1, params)

flush(a) ==
    LET params == a.pending
        a1 == [a EXCEPT !.timer = NoTimer, !.pending = Empty]
    IN  IF DOMAIN params = {} THEN [a |-> a1, cmds |-> <<>>]
        ELSE DebouncerSend(a1, params)

LightOff == [k \in {KLightOnOff} |-> 0]
TimerOff == [k \in {KTimerEnable} |-> 0]

\* A light check that leaves the suppression flag set.
autoLightCheckKeepsFlag(a) ==
    IF a.suppressAutoLight
    THEN IF ~a.online
         THEN [a |-> a, cmds |-> <<Cmd("light", LightOff, FALSE)>>]
         ELSE [a |-> [a EXCEPT !.commandCooldownUntil = now + COMMAND_COOLDOWN_MS],
               cmds |-> <<Cmd("light", LightOff, TRUE)>>]
    ELSE [a |-> a, cmds |-> <<>>]

\* The closure scheduled by the auto-light block of setFanActive.
autoLightCheck(a) ==
    IF a.suppressAutoLight
    THEN LET a1 == [a EXCEPT !.suppressAutoLight = FALSE]
         IN  IF ~a1.online
             THEN [a |-> a1, cmds |-> <<Cmd("light", LightOff, FALSE)>>]
             ELSE [a |-> [a1 EXCEPT !.commandCooldownUntil = now + COMMAND_COOLDOWN_MS],
                   cmds |-> <<Cmd("light", LightOff, TRUE)>>]
    ELSE [a |-> a, cmds |-> <<>>]

\* An auto-timer check whose cooldown is added to the one still running.
autoTimerCheckStacks(a) ==
    IF a.suppressAutoTimer
    THEN IF ~a.online
         THEN [a |-> a, cmds |-> <<Cmd("timer", TimerOff, FALSE)>>]
         ELSE [a |-> [a EXCEPT !.commandCooldownUntil =
                                   a.commandCooldownUntil + COMMAND_COOLDOWN_MS],
               cmds |-> <<Cmd("timer", TimerOff, TRUE)>>]
    ELSE [a |-> a, cmds |-> <<>>]

\* The closure scheduled by the auto-timer block of setFanActive.
autoTimerCheck(a) ==
    IF a.suppressAutoTimer
    THEN IF ~a.online
         THEN [a |-> a, cmds |-> <<Cmd("timer", TimerOff, FALSE)>>]
         ELSE [a |-> [a EXCEPT !.commandCooldownUntil = now + COMMAND_COOLDOWN_MS],
               cmds |-> <<Cmd("timer", TimerOff, TRUE)>>]
    ELSE [a |-> a, cmds |-> <<>>]

\* ---------------------------------------------------------------------------
\* PandoPlatform: the setInterval callback of startPolling
\* ---------------------------------------------------------------------------
\* Body of the loop over activeAccessories after a successful getThings():
\* `present` says whether thingMap holds the hood, `thing` is its capabilities.
PollSuccessHandler(a, present, thing, wasOffline) ==
    IF present
    THEN updateState(IF wasOffline THEN setOnline(a, TRUE) ELSE a, thing)
    ELSE a

\* Body of the catch branch for one accessory; failures is the new counter.
PollFailureHandler(a, failures) ==
    IF failures = OFFLINE_THRESHOLD THEN setOnline(a, FALSE) ELSE a

\* ---------------------------------------------------------------------------
\* The clock
\* ---------------------------------------------------------------------------
FlushDue(d) == acc[d].timer # NoTimer /\ acc[d].timer <= now

CheckDue(d) == acc[d].timeouts # <<>> /\ Head(acc[d].timeouts).at <= now

AnyDue == \E d \in activeAccessories : FlushDue(d) \/ CheckDue(d)

\* Distances to the instants of hood a that lie ahead: its pending timers
\* and the end of its command cooldown.
Deadlines(a) ==
    ({a.timer} \ {NoTimer})
    \cup {a.timeouts[i].at : i \in DOMAIN a.timeouts}
    \cup ({a.commandCooldownUntil} \ {0})

SetMin(S) == CHOOSE x \in S : \A y \in S : x <= y

\* The accessory seen dt ms later: every distance shrinks by dt.
Later(a, dt) ==
    [a EXCEPT !.timer = IF a.timer = NoTimer THEN NoTimer ELSE a.timer - dt,
              !.timeouts = [i \in DOMAIN a.timeouts |->
                              [a.timeouts[i] EXCEPT !.at = a.timeouts[i].at - dt]],
              !.commandCooldownUntil = Max(0, a.commandCooldownUntil - dt)]

\* ---------------------------------------------------------------------------
\* History kept for the properties (not read by the program)
\* ---------------------------------------------------------------------------
\* What lastOp keeps of the accessory a callback found.
Before(a) ==
    [suppressAutoLight |-> a.suppressAutoLight,
     suppressAutoTimer |-> a.suppressAutoTimer,
     timerEnable |-> Get(a.state, KTimerEnable, 0)]

\* watch[d][i] belongs to the suppression check acc[d].timeouts[i]: the number
\* of compensating commands of its kind handed to the transport since the
\* fan-on intent that scheduled it, which intents arrived on the hood since
\* then, whether the last of the fan-on, fan-off and light-on (timer-on for a
\* timer check) intents was one that cancels the suppression, whether the
\* hood was marked offline at any moment since then, whether the debouncer
\* has handed a command to the transport since then, and whether a light-on
\* was in the pending batch when the fan-on intent arrived.
NewWatch(a) ==
    [sent |-> 0, lightOn |-> FALSE, timerOn |-> FALSE, fanOff |-> FALSE,
     fanOn |-> FALSE, cancelled |-> FALSE, offline |-> ~a.online,
     flushed |-> FALSE, lightPending |-> Get(a.pending, KLightOnOff, 0) = 1]

WatchIntent(w, kind, op, arg) ==
    CASE op = "setFanActive" /\ arg = 1 -> [w EXCEPT !.fanOn = TRUE, !.cancelled = FALSE]
      [] op = "setFanActive" /\ arg = 0 -> [w EXCEPT !.fanOff = TRUE, !.cancelled = TRUE]
      [] op = "setLightOn" /\ arg = TRUE ->
            [w EXCEPT !.lightOn = TRUE,
                      !.cancelled = IF kind = "light" THEN TRUE ELSE w.cancelled]
      [] op = "setTimerActive" /\ arg = TRUE ->
            [w EXCEPT !.timerOn = TRUE,
                      !.cancelled = IF kind = "timer" THEN TRUE ELSE w.cancelled]
      [] OTHER -> w

\* The watch of hood d after an intent that left it with accessory a2.
WatchAfterIntent(ws, a, a2, op, arg) ==
    [i \in DOMAIN a2.timeouts |->
        IF i \in DOMAIN ws THEN WatchIntent(ws[i], a.timeouts[i].kind, op, arg)
        ELSE NewWatch(a)]

Transmitted(cmds) == Cardinality({i \in DOMAIN cmds : cmds[i].tx})

\* The watch of hood d after its oldest check, of the given kind, ran.
WatchAfterCheck(ws, a, kind, cmds) ==
    [i \in DOMAIN Tail(ws) |->
        IF a.timeouts[i + 1].kind = kind
        THEN [ws[i + 1] EXCEPT !.sent = ws[i + 1].sent + Transmitted(cmds)]
        ELSE ws[i + 1]]

\* The watch of hood d after its debounce timer fired.
WatchAfterFlush(ws, cmds) ==
    [i \in DOMAIN ws |->
        [ws[i] EXCEPT !.flushed = ws[i].flushed \/ Transmitted(cmds) > 0]]

WatchAfterPoll(ws, a2) ==
    [i \in DOMAIN ws |-> [ws[i] EXCEPT !.offline = ws[i].offline \/ ~a2.online]]

\* lastOp: the callback of the last step, the hood it ran on (0: the platform),
\* its argument, what it found, the commands it decided on, the hoods whose
\* state it pushed to the control surface, for a suppression check the watch
\* of that check, whether the transport rejected its command and, for a poll,
\* the StatusFault values it gave each hood's control surface, in order.
Op(op, d, arg, cmds, pushed, fired) ==
    [op |-> op, dev |-> d, arg |-> arg,
     pre |-> IF d \in Devices THEN Before(acc[d]) ELSE Before(NewAccessory(Empty)),
     cmds |-> cmds, pushed |-> pushed, fired |-> fired, rejected |-> FALSE,
     faults |-> [x \in activeAccessories |-> <<>>]]

NoWatch == NewWatch(NewAccessory(Empty))

\* A command as recorded: by which callback, with which parameters, whether
\* it was handed to the transport, and the online flag when it was decided.
Recorded(cmds, a) ==
    [i \in DOMAIN cmds |->
        [by |-> cmds[i].by, params |-> cmds[i].params, tx |-> cmds[i].tx,
         online |-> a.online]]

\* burst[d]: the intents on hood d each of which arrived less than DEBOUNCE_MS
\* after the previous one, the ms since the last of them, and the commands
\* decided on since the first of them.  Once the last intent is DEBOUNCE_MS
\* old the burst is closed; it is forgotten when the clock moves on.
NoBurst == [intents |-> <<>>, age |-> DEBOUNCE_MS, cmds |-> <<>>, polled |-> FALSE]

BurstOpen(b) == b.intents # <<>> /\ b.age < DEBOUNCE_MS

BurstClosed(b) == b.intents # <<>> /\ b.age >= DEBOUNCE_MS

BurstIntent(b, op, arg, enq, a) ==
    LET rec == [op |-> op, arg |-> arg, enq |-> enq,
                power |-> getFanActive(a), online |-> a.online,
                polled |-> BurstOpen(b) /\ b.polled]
    IN  IF BurstOpen(b)
        THEN [b EXCEPT !.intents = Append(b.intents, rec), !.age = 0]
        ELSE [intents |-> <<rec>>, age |-> 0, cmds |-> <<>>, polled |-> FALSE]

BurstCmds(b, cmds) ==
    IF b.intents = <<>> THEN b ELSE [b EXCEPT !.cmds = b.cmds \o cmds]

BurstLater(b, dt) ==
    IF BurstOpen(b) THEN [b EXCEPT !.age = Min(b.age + dt, DEBOUNCE_MS)] ELSE NoBurst

\* Distance to the instant at which the open burst b closes.
BurstEnds(b) == IF BurstOpen(b) THEN {DEBOUNCE_MS - b.age} ELSE {}

\* The instants at which the clock stops for callbacks to be served: every
\* instant ahead (a timer due, the cooldown ending, a burst closing) and the
\* instant Tick ms before it.
Stops ==
    LET ahead == UNION {Deadlines(acc[d]) \cup BurstEnds(burst[d]) : d \in activeAccessories}
    IN  {x \in ahead \cup {y - Tick : y \in ahead} : x > 0}

Elapse == SetMin(Stops)

\* The accessory as kept between callbacks.
Store(a) == [a EXCEPT !.npush = 0, !.pushedFaults = <<>>]

\* lastPoll: the response of the last successful poll and what it left of each
\* accessory, kept while nothing but the clock has moved since; `again` says
\* that the poll before it, with only the clock moving between the two, had
\* the same response, and `first` is what that one left.  The history is
\* followed only in a specification that starts it with NoPoll; one that starts
\* it with PollsNotFollowed leaves it there.
Settled(a) ==
    [state |-> a.state, lastFanSpeed |-> a.lastFanSpeed,
     suppressAutoLight |-> a.suppressAutoLight,
     suppressAutoTimer |-> a.suppressAutoTimer,
     derived |-> DerivedValues(a)]

NoPoll == [seen |-> FALSE, again |-> FALSE, followed |-> TRUE]

PollsNotFollowed == [seen |-> FALSE, again |-> FALSE, followed |-> FALSE]

ForgetPoll(last) == IF last.followed THEN NoPoll ELSE last

PollRecord(thingMap, new, last) ==
    IF ~last.followed THEN last
    ELSE [seen |-> TRUE, followed |-> TRUE, arg |-> thingMap,
          after |-> [d \in activeAccessories |-> Settled(new[d])],
          again |-> last.seen /\ last.arg = thingMap,
          first |-> IF last.seen /\ last.arg = thingMap THEN last.after
                    ELSE [d \in activeAccessories |-> Settled(new[d])]]

\* requests: how many getThings() calls the polling loop has made, which of
\* them have not settled yet, and the calls whose responses were applied, in
\* the order of application.  A call is named by its number in request order.
NoRequests == [issued |-> 0, outstanding |-> {}, applied |-> <<>>]

Requested(r) ==
    [r EXCEPT !.issued = r.issued + 1,
              !.outstanding = r.outstanding \cup {r.issued + 1}]

Resolved(r, id) ==
    [r EXCEPT !.outstanding = r.outstanding \ {id},
              !.applied = Append(r.applied, id)]

\* ---------------------------------------------------------------------------
\* Actions
\* ---------------------------------------------------------------------------
\* A set handler called by the control surface on hood d.
Intent(d, op, arg, a2, enq) ==
    /\ running
    /\ intentsLeft > 0
    /\ d \in activeAccessories
    /\ ~AnyDue
    /\ acc' = [acc EXCEPT ![d] = Store(a2)]
    /\ burst' = [burst EXCEPT ![d] = BurstIntent(burst[d], op, arg, enq, acc[d])]
    /\ watch' = [watch EXCEPT ![d] = WatchAfterIntent(watch[d], acc[d], a2, op, arg)]
    /\ fanOffSince' = [fanOffSince EXCEPT ![d] =
                          CASE op = "setFanActive" -> arg = 0
                            [] op = "setTimerActive" /\ arg = TRUE -> FALSE
                            [] OTHER -> fanOffSince[d]]
    /\ lastOp' = Op(op, d, arg, <<>>, {}, NoWatch)
    /\ lastPoll' = ForgetPoll(lastPoll)
    /\ intentsLeft' = intentsLeft - 1
    /\ UNCHANGED <<launched, requests>>
    /\ UNCHANGED <<activeAccessories, consecutiveFailures, pollTimer, running,
                   shutdownSeen, pollsLeft>>

SetFanActive(d, value) ==
    Intent(d, "setFanActive", value,
           setFanActive(acc[d], value), FanCommands(acc[d], value))

SetFanSpeed(d, percent) ==
    Intent(d, "setFanSpeed", percent,
           setFanSpeed(acc[d], percent), FanSpeedCommands(acc[d], percent))

SetLightOn(d, value) ==
    Intent(d, "setLightOn", value,
           setLightOn(acc[d], value), LightCommands(value))

SetTimerActive(d, value) ==
    Intent(d, "setTimerActive", value,
           setTimerActive(acc[d], value), TimerCommands(acc[d], value))

\* Timer callbacks of accessories that share one cooldown deadline.
TimerEffectsSharedCooldown(d, r, ws) ==
    /\ running
    /\ acc' = [e \in activeAccessories |->
                 IF e = d THEN Store(r.a)
                 ELSE [acc[e] EXCEPT !.commandCooldownUntil = r.a.commandCooldownUntil]]
    /\ burst' = [burst EXCEPT ![d] = BurstCmds(burst[d], Recorded(r.cmds, acc[d]))]
    /\ watch' = [watch EXCEPT ![d] = ws]
    /\ lastPoll' = ForgetPoll(lastPoll)
    /\ UNCHANGED <<launched, requests>>
    /\ UNCHANGED <<activeAccessories, consecutiveFailures, fanOffSince, pollTimer,
                   shutdownSeen, intentsLeft, pollsLeft>>

\* What a timer callback of hood d with result r = [a, cmds] does to the
\* accessory.
TimerEffects(d, r, ws) ==
    /\ running
    /\ acc' = [acc EXCEPT ![d] = Store(r.a)]
    /\ burst' = [burst EXCEPT ![d] = BurstCmds(burst[d], Recorded(r.cmds, acc[d]))]
    /\ watch' = [watch EXCEPT ![d] = ws]
    /\ lastPoll' = ForgetPoll(lastPoll)
    /\ UNCHANGED <<launched, requests>>
    /\ UNCHANGED <<activeAccessories, consecutiveFailures, fanOffSince, pollTimer,
                   shutdownSeen, intentsLeft, pollsLeft>>

\* A timer callback of hood d ran with result r = [a, cmds]; the transport
\* accepted what it was handed.
TimerFired(d, op, r, ws, fired) ==
    /\ TimerEffects(d, r, ws)
    /\ lastOp' = Op(op, d, 0, Recorded(r.cmds, acc[d]), {}, fired)
    /\ UNCHANGED running

\* A timer callback of hood d handed a command to client.sendCommand and the
\* promise rejected.  No caller catches it: the callback has done everything
\* up to the await, and the rejection is left to the runtime, which either
\* carries on or ends the process.
TimerRejected(d, op, r, ws, fired) ==
    /\ Transmitted(r.cmds) > 0
    /\ TimerEffects(d, r, ws)
    /\ lastOp' = [Op(op, d, 0, Recorded(r.cmds, acc[d]), {}, fired)
                     EXCEPT !.rejected = TRUE]
    /\ running' \in BOOLEAN

\* The debounce timer of hood d fires.
Flush(d) ==
    /\ FlushDue(d)
    /\ TimerFired(d, "flush", flush(acc[d]),
                  WatchAfterFlush(watch[d], flush(acc[d]).cmds), NoWatch)

\* The oldest suppression check of hood d fires.
LightCheck(d) ==
    /\ CheckDue(d)
    /\ Head(acc[d].timeouts).kind = "light"
    /\ LET r == autoLightCheck([acc[d] EXCEPT !.timeouts = Tail(acc[d].timeouts)])
       IN  TimerFired(d, "lightCheck", r,
                      WatchAfterCheck(watch[d], acc[d], "light", r.cmds), Head(watch[d]))

TimerCheck(d) ==
    /\ CheckDue(d)
    /\ Head(acc[d].timeouts).kind = "timer"
    /\ LET r == autoTimerCheck([acc[d] EXCEPT !.timeouts = Tail(acc[d].timeouts)])
       IN  TimerFired(d, "timerCheck", r,
                      WatchAfterCheck(watch[d], acc[d], "timer", r.cmds), Head(watch[d]))

\* The same three callbacks when client.sendCommand rejects.
FlushRejected(d) ==
    /\ FlushDue(d)
    /\ TimerRejected(d, "flush", flush(acc[d]),
                     WatchAfterFlush(watch[d], flush(acc[d]).cmds), NoWatch)

LightCheckRejected(d) ==
    /\ CheckDue(d)
    /\ Head(acc[d].timeouts).kind = "light"
    /\ LET r == autoLightCheck([acc[d] EXCEPT !.timeouts = Tail(acc[d].timeouts)])
       IN  TimerRejected(d, "lightCheck", r,
                         WatchAfterCheck(watch[d], acc[d], "light", r.cmds),
                         Head(watch[d]))

TimerCheckRejected(d) ==
    /\ CheckDue(d)
    /\ Head(acc[d].timeouts).kind = "timer"
    /\ LET r == autoTimerCheck([acc[d] EXCEPT !.timeouts = Tail(acc[d].timeouts)])
       IN  TimerRejected(d, "timerCheck", r,
                         WatchAfterCheck(watch[d], acc[d], "timer", r.cmds),
                         Head(watch[d]))

\* Responses getThings() can resolve with: capabilities for some of the hoods.
ThingMaps == UNION { [S -> PollResults] : S \in SUBSET activeAccessories }

\* The accessories after the callback of a poll cycle ran.
Polled(new) ==
    /\ running
    /\ pollTimer
    /\ acc' = [d \in activeAccessories |-> Store(new[d])]
    /\ watch' = [d \in activeAccessories |-> WatchAfterPoll(watch[d], new[d])]
    /\ UNCHANGED <<activeAccessories, intentsLeft, running, shutdownSeen>>
    /\ UNCHANGED launched

\* The try branch of the polling callback once getThings() resolved with
\* thingMap.
PollApplied(thingMap) ==
    LET wasOffline == consecutiveFailures >= OFFLINE_THRESHOLD
        new == [d \in activeAccessories |->
                  PollSuccessHandler(acc[d], d \in DOMAIN thingMap,
                      IF d \in DOMAIN thingMap THEN thingMap[d] ELSE Empty,
                      wasOffline)]
    IN  /\ ~AnyDue
        /\ Polled(new)
        /\ consecutiveFailures' = 0
        /\ pollTimer' = pollTimer
        /\ lastPoll' = PollRecord(thingMap, new, lastPoll)
        /\ burst' = [d \in activeAccessories |->
                       IF d \in DOMAIN thingMap
                       THEN [burst[d] EXCEPT !.polled = TRUE] ELSE burst[d]]
        /\ fanOffSince' = [d \in activeAccessories |->
                             fanOffSince[d]
                             /\ ~(d \in DOMAIN thingMap /\ Truthy(thingMap[d], KOnOff))]
        /\ lastOp' = [Op("poll", 0, thingMap, <<>>,
                           {d \in activeAccessories : new[d].npush > 0}, NoWatch)
                          EXCEPT !.faults = [d \in activeAccessories |-> new[d].pushedFaults]]

\* A poll cycle whose getThings() resolved with thingMap before the next
\* cycle began.
PollSuccess(thingMap) ==
    /\ pollsLeft > 0
    /\ PollApplied(thingMap)
    /\ pollsLeft' = pollsLeft - 1
    /\ UNCHANGED requests

\* A catch branch that stops polling once the hoods are marked offline.
PollCaughtStops(failures, timer) ==
    [failures |-> failures + 1,
     timer |-> timer /\ failures + 1 < OFFLINE_THRESHOLD]

\* The platform's own state after the catch branch: the failure is counted,
\* the setInterval handle is left alone.
PollCaught(failures, timer) == [failures |-> failures + 1, timer |-> timer]

\* A poll cycle whose getThings() rejected, while fewer than `cap` cycles in a
\* row have.
PollFailureUpTo(cap) ==
    LET new == [d \in activeAccessories |->
                  PollFailureHandler(acc[d], consecutiveFailures + 1)]
    IN  /\ ~AnyDue
        /\ consecutiveFailures < cap
        /\ Polled(new)
        /\ consecutiveFailures' = PollCaught(consecutiveFailures, pollTimer).failures
        /\ pollTimer' = PollCaught(consecutiveFailures, pollTimer).timer
        /\ lastPoll' = ForgetPoll(lastPoll)
        /\ lastOp' = [Op("pollFailure", 0, 0, <<>>,
                           {d \in activeAccessories : new[d].npush > 0}, NoWatch)
                          EXCEPT !.faults = [d \in activeAccessories |-> new[d].pushedFaults]]
        /\ UNCHANGED <<burst, fanOffSince, pollsLeft, requests>>

PollFailure == PollFailureUpTo(MaxFailures)

\* Failing polls up to the one that marks the hoods offline.
PollFailureToOffline == PollFailureUpTo(OFFLINE_THRESHOLD)

\* The interval fires: the callback calls getThings() and awaits it.  Earlier
\* calls may still be awaited; nothing in the callback looks at them.
PollRequest ==
    /\ running
    /\ pollTimer
    /\ pollsLeft > 0
    /\ ~AnyDue
    /\ requests' = Requested(requests)
    /\ pollsLeft' = pollsLeft - 1
    /\ lastOp' = Op("pollRequest", 0, 0, <<>>, {}, NoWatch)
    /\ UNCHANGED launched
    /\ UNCHANGED <<acc, activeAccessories, consecutiveFailures, burst, watch,
                   fanOffSince, lastPoll, pollTimer, running, shutdownSeen,
                   intentsLeft>>

\* The getThings() call numbered id resolves with thingMap and its callback
\* carries on after the await.
PollResolved(id, thingMap) ==
    /\ id \in requests.outstanding
    /\ PollApplied(thingMap)
    /\ requests' = Resolved(requests, id)
    /\ UNCHANGED pollsLeft

\* The clock moves on.
Advance ==
    /\ running
    /\ ~AnyDue
    /\ Stops # {}
    /\ acc' = [d \in activeAccessories |-> Later(acc[d], Elapse)]
    /\ burst' = [d \in activeAccessories |-> BurstLater(burst[d], Elapse)]
    /\ lastOp' = Op("advance", 0, 0, <<>>, {}, NoWatch)
    /\ UNCHANGED <<launched, requests>>
    /\ UNCHANGED <<activeAccessories, consecutiveFailures, watch, fanOffSince,
                   lastPoll, pollTimer, running, shutdownSeen, intentsLeft,
                   pollsLeft>>

\* A shutdown handler that forgets to clear the interval.
ShutdownHandlerKeepsTimer(timer) == timer

\* The handler of APIEvent.SHUTDOWN.
ShutdownHandler(timer) == FALSE

\* Homebridge emits the shutdown event.
Shutdown ==
    /\ running
    /\ ~shutdownSeen
    /\ pollTimer' = ShutdownHandler(pollTimer)
    /\ shutdownSeen' = TRUE
    /\ lastOp' = Op("shutdown", 0, 0, <<>>, {}, NoWatch)
    /\ UNCHANGED <<launched, requests>>
    /\ UNCHANGED <<acc, activeAccessories, consecutiveFailures, burst, watch,
                   fanOffSince, lastPoll, running, intentsLeft, pollsLeft>>

\* The two conversions applied to the arguments held in conv.
Convert ==
    /\ ~conv.done
    /\ conv' = Converted(conv)
    /\ lastOp' = Op("convert", 0, 0, <<>>, {}, NoWatch)
    /\ UNCHANGED <<acc, activeAccessories, consecutiveFailures, burst, watch,
                   fanOffSince, lastPoll, pollTimer, running, shutdownSeen,
                   config, intervalMs, requests, discovery, intentsLeft,
                   pollsLeft>>

\* startPolling: the interval is computed from the config and the timer armed.
startPolling ==
    /\ running
    /\ ~pollTimer
    /\ ~shutdownSeen
    /\ intervalMs' = PollingIntervalMs(config)
    /\ pollTimer' = TRUE
    /\ lastOp' = Op("startPolling", 0, 0, <<>>, {}, NoWatch)
    /\ UNCHANGED <<acc, activeAccessories, consecutiveFailures, burst, watch,
                   fanOffSince, lastPoll, running, shutdownSeen, config, conv,
                   requests, discovery, intentsLeft, pollsLeft>>

\* Hoods the account can hold when the platform is launched.
DiscoveredThings == UNION { [S -> InitThings] : S \in SUBSET Devices }

\* discoverDevices when getThings() resolves with `things`: a handler is built
\* for each thing and startPolling is called.
discoverDevices(things) ==
    /\ running
    /\ discovery = "pending"
    /\ discovery' = "done"
    /\ activeAccessories' = DOMAIN things
    /\ acc' = [d \in DOMAIN things |-> Store(NewAccessory(things[d]))]
    /\ burst' = [d \in DOMAIN things |-> NoBurst]
    /\ watch' = [d \in DOMAIN things |-> <<>>]
    /\ fanOffSince' = [d \in DOMAIN things |-> FALSE]
    /\ intervalMs' = PollingIntervalMs(config)
    /\ pollTimer' = TRUE
    /\ lastOp' = Op("discoverDevices", 0, things, <<>>, {}, NoWatch)
    /\ UNCHANGED <<consecutiveFailures, lastPoll, running, shutdownSeen, config,
                   conv, requests, intentsLeft, pollsLeft>>

\* discoverDevices when getThings() rejects: the catch block logs the error
\* and returns.
discoverDevicesFailed ==
    /\ running
    /\ discovery = "pending"
    /\ discovery' = "failed"
    /\ lastOp' = Op("discoverDevicesFailed", 0, 0, <<>>, {}, NoWatch)
    /\ UNCHANGED <<acc, activeAccessories, consecutiveFailures, burst, watch,
                   fanOffSince, lastPoll, pollTimer, running, shutdownSeen,
                   config, intervalMs, conv, requests, intentsLeft, pollsLeft>>

\* ---------------------------------------------------------------------------
\* Specifications
\* ---------------------------------------------------------------------------
\* The platform after discoverDevices: the hoods of `group` are managed, each
\* handler built from the capabilities discovery returned for it; `followed`
\* says whether the specification follows the lastPoll history.
InitWith(group, intents, polls, followed) ==
    /\ activeAccessories = group
    /\ acc \in [group -> {Store(NewAccessory(c)) : c \in InitThings}]
    /\ consecutiveFailures = 0
    /\ burst = [d \in activeAccessories |-> NoBurst]
    /\ watch = [d \in activeAccessories |-> <<>>]
    /\ fanOffSince = [d \in activeAccessories |-> FALSE]
    /\ lastPoll = (IF followed THEN NoPoll ELSE PollsNotFollowed)
    /\ pollTimer = TRUE
    /\ config = Empty
    /\ intervalMs = PollingIntervalMs(Empty)
    /\ conv = NoConversion
    /\ requests = NoRequests
    /\ discovery = "done"
    /\ running = TRUE
    /\ shutdownSeen = FALSE
    /\ lastOp = Op("init", 0, 0, <<>>, {}, NoWatch)
    /\ intentsLeft = intents
    /\ pollsLeft = polls

Timers ==
    \E d \in activeAccessories : Flush(d) \/ LightCheck(d) \/ TimerCheck(d)

Intents ==
    \E d \in activeAccessories :
        \/ \E value \in {0, 1} : SetFanActive(d, value)
        \/ \E percent \in FanPercents : SetFanSpeed(d, percent)
        \/ \E value \in BOOLEAN : SetLightOn(d, value)
        \/ \E value \in BOOLEAN : SetTimerActive(d, value)

PollSuccesses == \E thingMap \in ThingMaps : PollSuccess(thingMap)

\* One hood whose cloud API always answers.
Init == InitWith({1}, MaxIntents, MaxPolls, FALSE)

Next == Intents \/ Timers \/ PollSuccesses \/ Advance

Spec == Init /\ [][Next]_vars

\* One hood whose polls may also fail.
InitOffline == InitWith({1}, OfflineIntents, OfflinePolls, FALSE)

NextOffline == Intents \/ Timers \/ PollSuccesses \/ PollFailureToOffline \/ Advance

SpecOffline == InitOffline /\ [][NextOffline]_vars

\* A group of two hoods behind one account.
InitGroup == InitWith({1, 2}, GroupIntents, GroupPolls, FALSE)

NextGroup == Intents \/ Timers \/ PollSuccesses \/ PollFailure \/ Advance

SpecGroup == InitGroup /\ [][NextGroup]_vars

\* One hood whose transport may reject commands.
RejectedTimers ==
    \E d \in activeAccessories : FlushRejected(d) \/ LightCheckRejected(d) \/ TimerCheckRejected(d)

InitTransport == InitWith({1}, TransportIntents, TransportPolls, TRUE)

NextTransport == Intents \/ Timers \/ RejectedTimers \/ PollSuccesses \/ Advance

SpecTransport == InitTransport /\ [][NextTransport]_vars

\* The polling loop of a group of two hoods, until shutdown.
InitPolling == InitWith({1, 2}, 0, PollingPolls, FALSE)

NextPolling == PollSuccesses \/ PollFailure \/ Shutdown

SpecPolling == InitPolling /\ [][NextPolling]_vars

\* One hood that is switched on and whose speed is then set again and again.
RestartingIntents ==
    \E d \in activeAccessories : SetFanActive(d, 1) \/ SetFanSpeed(d, 50)

InitRestart == InitWith({1}, RestartIntents, 0, FALSE)

NextRestart == RestartingIntents \/ Timers \/ Advance

SpecRestart == InitRestart /\ [][NextRestart]_vars

\* One hood through a longer session of intents.
InitSession == InitWith({1}, SessionIntents, SessionPolls, FALSE)

NextSession == Intents \/ Timers \/ PollSuccesses \/ Advance

SpecSession == InitSession /\ [][NextSession]_vars

\* Polls whose response lists every managed hood, with the fan off or on.
ListedResults == {Caps(0, 0, 0, 0, 0), Caps(1, 3, 0, 0, 0)}

ListedPollSuccesses ==
    \E thingMap \in [activeAccessories -> ListedResults] : PollSuccess(thingMap)

\* One hood under every intent, with polls that list it or fail.
InitCooldown == InitWith({1}, CooldownIntents, CooldownPolls, FALSE)

NextCooldown == Intents \/ Timers \/ ListedPollSuccesses \/ PollFailure \/ Advance

SpecCooldown == InitCooldown /\ [][NextCooldown]_vars

\* Two hoods behind one account whose cloud API always answers.
InitPair == InitWith({1, 2}, PairIntents, PairPolls, FALSE)

NextPair == Intents \/ Timers \/ ListedPollSuccesses \/ Advance

SpecPair == InitPair /\ [][NextPair]_vars

\* One hood under fan intents only, with no poll in between.
FanIntents ==
    \E d \in activeAccessories :
        \/ \E value \in {0, 1} : SetFanActive(d, value)
        \/ \E percent \in FanPercents : SetFanSpeed(d, percent)

InitSpeed == InitWith({1}, SpeedIntents, 0, FALSE)

NextSpeed == FanIntents \/ Timers \/ Advance

SpecSpeed == InitSpeed /\ [][NextSpeed]_vars

\* One hood under every intent, with polls that fail until the hood is marked
\* offline.  The event loop runs a timer that is due, and the clock moves on.
InitDebounce == InitWith({1}, DebounceIntents, 0, FALSE)

NextDebounce == Intents \/ Timers \/ PollFailureToOffline \/ Advance

SpecDebounce ==
    InitDebounce /\ [][NextDebounce]_vars /\ WF_vars(Timers) /\ WF_vars(Advance)

\* The polling loop of one hood whose requests may take longer than the
\* interval: a response arrives at any time after its request.
PollResolves ==
    \E id \in requests.outstanding : \E thingMap \in ThingMaps :
        PollResolved(id, thingMap)

InitOverlap == InitWith({1}, 0, OverlapPolls, FALSE)

NextOverlap == PollRequest \/ PollResolves

SpecOverlap == InitOverlap /\ [][NextOverlap]_vars

\* The platform when didFinishLaunching fires, before discovery.
InitDiscovery ==
    /\ activeAccessories = {}
    /\ acc = Empty
    /\ consecutiveFailures = 0
    /\ burst = Empty
    /\ watch = Empty
    /\ fanOffSince = Empty
    /\ lastPoll = PollsNotFollowed
    /\ pollTimer = FALSE
    /\ config = Empty
    /\ intervalMs = 0
    /\ conv = NoConversion
    /\ requests = NoRequests
    /\ discovery = "pending"
    /\ running = TRUE
    /\ shutdownSeen = FALSE
    /\ lastOp = Op("init", 0, 0, <<>>, {}, NoWatch)
    /\ intentsLeft = 0
    /\ pollsLeft = DiscoveryPolls

Discovers == \E things \in DiscoveredThings : discoverDevices(things)

NextDiscovery == Discovers \/ discoverDevicesFailed \/ PollSuccesses \/ PollFailure

SpecDiscovery == InitDiscovery /\ [][NextDiscovery]_vars

\* The platform as didFinishLaunching finds it, with discovery done and
\* startPolling about to run, for every config.
InitLaunch ==
    /\ activeAccessories = {1}
    /\ acc \in [{1} -> {Store(NewAccessory(c)) : c \in InitThings}]
    /\ consecutiveFailures = 0
    /\ burst = [d \in activeAccessories |-> NoBurst]
    /\ watch = [d \in activeAccessories |-> <<>>]
    /\ fanOffSince = [d \in activeAccessories |-> FALSE]
    /\ lastPoll = PollsNotFollowed
    /\ pollTimer = FALSE
    /\ config \in Configs
    /\ intervalMs = 0
    /\ conv = NoConversion
    /\ requests = NoRequests
    /\ discovery = "done"
    /\ running = TRUE
    /\ shutdownSeen = FALSE
    /\ lastOp = Op("init", 0, 0, <<>>, {}, NoWatch)
    /\ intentsLeft = 0
    /\ pollsLeft = LaunchPolls

NextLaunch == startPolling \/ PollSuccesses

SpecLaunch == InitLaunch /\ [][NextLaunch]_vars

\* The fan speed conversions on every level and every percentage.
InitMapping ==
    /\ activeAccessories = {1}
    /\ acc \in [{1} -> {Store(NewAccessory(c)) : c \in InitThings}]
    /\ consecutiveFailures = 0
    /\ burst = [d \in activeAccessories |-> NoBurst]
    /\ watch = [d \in activeAccessories |-> <<>>]
    /\ fanOffSince = [d \in activeAccessories |-> FALSE]
    /\ lastPoll = PollsNotFollowed
    /\ pollTimer = TRUE
    /\ config = Empty
    /\ intervalMs = PollingIntervalMs(Empty)
    /\ conv \in [done : {FALSE}, speed : SpeedLevels, percent : PercentInputs]
    /\ requests = NoRequests
    /\ discovery = "done"
    /\ running = TRUE
    /\ shutdownSeen = FALSE
    /\ lastOp = Op("init", 0, 0, <<>>, {}, NoWatch)
    /\ intentsLeft = 0
    /\ pollsLeft = 0

NextMapping == Convert

SpecMapping == InitMapping /\ [][NextMapping]_vars

\* ---------------------------------------------------------------------------
\* Properties
\* ---------------------------------------------------------------------------
IntentOps == {"setFanActive", "setFanSpeed", "setLightOn", "setTimerActive"}

FlushCmds(cmds) == {i \in DOMAIN cmds : cmds[i].by = "flush"}

\* Last writer wins: for every key some intent of the sequence enqueued, the
\* value enqueued by the last intent that enqueued that key.
LastWins(intents) ==
    [k \in UNION {DOMAIN intents[i].enq : i \in DOMAIN intents} |->
        LET last == CHOOSE i \in DOMAIN intents :
                        /\ k \in DOMAIN intents[i].enq
                        /\ \A j \in DOMAIN intents :
                              k \in DOMAIN intents[j].enq => j <= i
        IN  intents[last].enq[k]]

\* C2: a poll that arrives while the command cooldown is active replaces the
\* shadow state with the polled capabilities and pushes nothing to the control
\* surface; a poll that arrives at or after the cooldown deadline replaces the
\* shadow state and pushes the derived values.
C2_CooldownBoundary ==
    lastOp.op = "poll" =>
        \A d \in DOMAIN lastOp.arg :
            /\ acc[d].state = lastOp.arg[d]
            /\ CooldownActive(acc[d]) => d \notin lastOp.pushed
            /\ ~CooldownActive(acc[d]) =>
                  d \in lastOp.pushed /\ acc[d].hk = DerivedValues(acc[d])

\* A poll arrived during the cooldown with capabilities whose derived values
\* differ from the ones the control surface holds.
C2_Witness ==
    /\ lastOp.op = "poll"
    /\ 1 \in DOMAIN lastOp.arg
    /\ CooldownActive(acc[1])
    /\ acc[1].hk # DerivedValues(acc[1])

\* C4: while the hood is marked offline no command is handed to the transport,
\* neither by the debouncer flush nor by the compensating light-off and
\* timer-off checks.
C4_NoTransmitOffline ==
    \A i \in DOMAIN lastOp.cmds :
        /\ lastOp.cmds[i].online = acc[lastOp.dev].online
        /\ lastOp.cmds[i].tx => lastOp.cmds[i].online

\* A timer callback decided on a command while the hood was marked offline.
C4_Witness ==
    \E i \in DOMAIN lastOp.cmds : ~lastOp.cmds[i].online /\ ~lastOp.cmds[i].tx

\* C9: right after a fan-off intent the shadow timer.enable is 0 and both
\* suppression flags are false.
C9_FanOffClearsTimer ==
    (lastOp.op = "setFanActive" /\ lastOp.arg = 0) =>
        /\ Get(acc[lastOp.dev].state, KTimerEnable, 1) = 0
        /\ ~acc[lastOp.dev].suppressAutoLight
        /\ ~acc[lastOp.dev].suppressAutoTimer

\* The fan-off intent found the timer enabled and both flags set.
C9_Witness ==
    /\ lastOp.op = "setFanActive" /\ lastOp.arg = 0
    /\ lastOp.pre.suppressAutoLight
    /\ lastOp.pre.suppressAutoTimer
    /\ lastOp.pre.timerEnable = 1

\* Every intent of the sequence handed keys to the debouncer.
AllEnqueue(intents) == \A i \in DOMAIN intents : DOMAIN intents[i].enq # {}

\* C1 as stated: any burst of intents, each less than DEBOUNCE_MS after the
\* previous one, results in exactly one transmitted command once the window
\* has closed (the hood being online), and that command carries the last
\* value of every key.
C1_AnyBurstOneCommand ==
    \A d \in activeAccessories :
        (BurstClosed(burst[d]) /\ ~AnyDue /\ acc[d].online) =>
            /\ Transmitted(burst[d].cmds) = 1
            /\ \A i \in DOMAIN burst[d].cmds :
                  burst[d].cmds[i].params = LastWins(burst[d].intents)

\* C1: for a burst of intents each of which hands keys to the debouncer and
\* arrives less than DEBOUNCE_MS after the previous one, the debouncer flushes
\* nothing while the window is open and exactly one command when it closes;
\* that command is transmitted iff the hood is online then, and carries for
\* every key the value of the last intent that enqueued it.
C1_Coalescing ==
    \A d \in activeAccessories :
        LET b == burst[d]
            flushed == FlushCmds(b.cmds)
        IN  (b.intents # <<>> /\ AllEnqueue(b.intents)) =>
                /\ BurstOpen(b) => flushed = {}
                /\ (BurstClosed(b) /\ ~FlushDue(d)) =>
                      /\ Cardinality(flushed) = 1
                      /\ \A i \in flushed :
                            /\ b.cmds[i].params = LastWins(b.intents)
                            /\ b.cmds[i].tx <=> b.cmds[i].online

\* A burst of two intents on the same key with different values was flushed.
C1_Witness ==
    LET b == burst[1]
    IN  /\ BurstClosed(b) /\ ~FlushDue(1)
        /\ Len(b.intents) = 2 /\ AllEnqueue(b.intents)
        /\ \E k \in DOMAIN b.intents[1].enq \cap DOMAIN b.intents[2].enq :
              b.intents[1].enq[k] # b.intents[2].enq[k]
        /\ FlushCmds(b.cmds) # {}

SpeedThenActive(b) ==
    /\ Len(b.intents) = 2
    /\ \E i, j \in 1..2 :
          /\ b.intents[i].op = "setFanSpeed" /\ b.intents[i].arg = 50
          /\ b.intents[j].op = "setFanActive" /\ b.intents[j].arg = 1
    /\ b.intents[1].power = 0
    /\ ~b.intents[2].polled

PowerOnAtSpeed2 == [k \in {KOnOff, KFanSpeed} |-> IF k = KOnOff THEN 1 ELSE 2]

\* C8: when a speed intent of 50% and a fan-active intent arrive in the same
\* debounce window while the fan is off, in either order, the shadow shows
\* power 1 and speed 2 right after the second of them, and the window closes
\* with one command {power 1, speed 2}, transmitted iff the hood is online.
C8_SpeedAndActiveAnyOrder ==
    \A d \in activeAccessories :
        LET b == burst[d]
        IN  SpeedThenActive(b) =>
                /\ (lastOp.op \in IntentOps /\ lastOp.dev = d) =>
                      /\ acc[d].state[KOnOff] = 1
                      /\ acc[d].state[KFanSpeed] = 2
                      /\ FlushCmds(b.cmds) = {}
                /\ (BurstClosed(b) /\ ~FlushDue(d)) =>
                      /\ Cardinality(FlushCmds(b.cmds)) = 1
                      /\ \A i \in FlushCmds(b.cmds) :
                            /\ b.cmds[i].params = PowerOnAtSpeed2
                            /\ b.cmds[i].tx <=> b.cmds[i].online

\* The speed intent came first, while the fan was off, and the window closed.
C8_Witness ==
    /\ SpeedThenActive(burst[1])
    /\ burst[1].intents[1].op = "setFanSpeed"
    /\ BurstClosed(burst[1]) /\ ~FlushDue(1)
    /\ FlushCmds(burst[1].cmds) # {}

\* C10 as stated: once the fan has been switched off, and until it is switched
\* on again or the timer is switched on, no value pushed to the control
\* surface and no value read by it reports the timer as on.
C10_NoTimerOnAfterFanOff ==
    \A d \in activeAccessories :
        fanOffSince[d] =>
            /\ ~getTimerOn(acc[d])
            /\ d \in lastOp.pushed => ~acc[d].hk.TimerOn

\* C5 as stated: the fault indicator of every managed hood is on exactly when
\* at least OFFLINE_THRESHOLD polls in a row have failed.
C5_FaultFollowsFailures ==
    \A d \in activeAccessories :
        /\ getStatusFault(acc[d]) = GENERAL_FAULT
              <=> consecutiveFailures >= OFFLINE_THRESHOLD
        /\ acc[d].hk.StatusFault = getStatusFault(acc[d])

\* C6 as stated: after a successful poll every managed hood is online and its
\* fault indicator cleared, also a hood the response did not list.
C6_AllBackOnline ==
    lastOp.op = "poll" =>
        \A d \in activeAccessories :
            acc[d].online /\ acc[d].hk.StatusFault = NO_FAULT

\* C7 as stated: a command flushed from a window that holds an intent issued
\* while the hood was marked offline is never transmitted.
C7_OfflineIntentNeverSent ==
    \A d \in activeAccessories :
        \A i \in FlushCmds(burst[d].cmds) :
            burst[d].cmds[i].tx =>
                \A j \in DOMAIN burst[d].intents : burst[d].intents[j].online

\* C11: while the auto-timer flag of a hood is set, the timer value the
\* control surface reads is off, and so is the timer value of every push,
\* whatever timer.enable the shadow holds.
C11_TimerHiddenWhileFlagSet ==
    \A d \in activeAccessories :
        acc[d].suppressAutoTimer =>
            /\ ~getTimerOn(acc[d])
            /\ d \in lastOp.pushed => ~acc[d].hk.TimerOn

\* A poll re-asserted timer.enable = 1 while the flag was set, and pushed.
C11_Witness ==
    /\ lastOp.op = "poll"
    /\ 1 \in lastOp.pushed
    /\ acc[1].suppressAutoTimer
    /\ Get(acc[1].state, KTimerEnable, 0) = 1

\* C12 as stated: the auto-timer flag is clear right after a fan-off intent
\* and right after a poll whose response reports the fan off.
C12_FlagClearedAtSessionEnd ==
    /\ (lastOp.op = "setFanActive" /\ lastOp.arg = 0) =>
           ~acc[lastOp.dev].suppressAutoTimer
    /\ lastOp.op = "poll" =>
           \A d \in DOMAIN lastOp.arg :
               ~Truthy(lastOp.arg[d], KOnOff) => ~acc[d].suppressAutoTimer

\* C13 as stated: between the fan-on intent that scheduled a timer check and
\* the next fan-off intent at most one timer-off command is transmitted, and
\* the auto-timer flag is still set after a check transmitted it.
C13_TimerOffOncePerSession ==
    lastOp.op = "timerCheck" =>
        /\ ~lastOp.fired.fanOff =>
              lastOp.fired.sent + Transmitted(lastOp.cmds) <= 1
        /\ Transmitted(lastOp.cmds) > 0 => acc[lastOp.dev].suppressAutoTimer

\* C14 as stated: a check that does not deliver its command, because the hood
\* is offline or because the transport rejects it, leaves both suppression
\* flags as it found them.
C14_UndeliveredCheckKeepsFlags ==
    (/\ lastOp.op \in {"lightCheck", "timerCheck"}
     /\ \/ lastOp.rejected
        \/ \E i \in DOMAIN lastOp.cmds : ~lastOp.cmds[i].tx) =>
        /\ acc[lastOp.dev].suppressAutoLight = lastOp.pre.suppressAutoLight
        /\ acc[lastOp.dev].suppressAutoTimer = lastOp.pre.suppressAutoTimer

\* C15 as stated: when the transport rejects a flushed command, the values the
\* intents of the batch wrote to the shadow stay (no poll having replaced
\* them), nothing is re-queued and no timer is set for a retry, and the
\* process carries on with later intents and polls.
C15_RejectedFlushLeavesShadow ==
    (lastOp.op = "flush" /\ lastOp.rejected) =>
        LET d == lastOp.dev
        IN  /\ ~burst[d].polled =>
                  \A i \in DOMAIN lastOp.cmds :
                      \A k \in DOMAIN lastOp.cmds[i].params :
                          Get(acc[d].state, k, -1) = lastOp.cmds[i].params[k]
            /\ acc[d].pending = Empty
            /\ acc[d].timer = NoTimer
            /\ running

PollOps == {"poll", "pollFailure"}

\* C16: a failed poll cycle is caught inside the polling callback: after it
\* the process is alive and the interval is still armed, however many cycles
\* in a row have failed, so the next cycle runs, until shutdown.
C16_PollingSurvivesFailure ==
    /\ lastOp.op = "pollFailure" => running
    /\ ~shutdownSeen => pollTimer

\* Polling went on after the hoods had been marked offline.
C16_Witness ==
    /\ lastOp.op = "pollFailure"
    /\ consecutiveFailures > OFFLINE_THRESHOLD
    /\ pollTimer

\* C17: whenever the shadow shows the fan off, the fan speed the control
\* surface reads is 0, and so is the fan speed of every push, whatever speed
\* level the shadow holds.
C17_SpeedZeroWhileOff ==
    \A d \in activeAccessories :
        ~Truthy(acc[d].state, KOnOff) =>
            /\ getFanSpeed(acc[d]) = 0
            /\ d \in lastOp.pushed => acc[d].hk.RotationSpeed = 0

\* A poll reported the fan off with a non-zero speed level, and pushed.
C17_Witness ==
    /\ lastOp.op = "poll"
    /\ 1 \in lastOp.pushed
    /\ ~Truthy(acc[1].state, KOnOff)
    /\ Get(acc[1].state, KFanSpeed, 0) > 0

\* C18: right after a fan-on intent the shadow shows power 1 and the
\* remembered last non-zero level as its speed, and that level is pending in
\* the debouncer together with power = 1.
C18_FanOnRestoresLastSpeed ==
    (lastOp.op = "setFanActive" /\ lastOp.arg = 1) =>
        LET a == acc[lastOp.dev]
        IN  /\ a.lastFanSpeed \in 1..4
            /\ a.state[KOnOff] = 1
            /\ a.state[KFanSpeed] = a.lastFanSpeed
            /\ KOnOff \in DOMAIN a.pending /\ a.pending[KOnOff] = 1
            /\ KFanSpeed \in DOMAIN a.pending
            /\ a.pending[KFanSpeed] = a.lastFanSpeed

\* The fan was switched on at level 3, a level only a poll can have reported,
\* while the shadow speed before the intent was another one.
C18_Witness ==
    /\ lastOp.op = "setFanActive" /\ lastOp.arg = 1
    /\ acc[lastOp.dev].lastFanSpeed = 3
    /\ Len(burst[lastOp.dev].intents) = 1

\* C19 as stated: when the same poll response is applied twice in a row with
\* only the clock moving in between, the shadow, the remembered last speed,
\* the suppression flags and the derived values after the second application
\* equal those after the first.
C19_SamePollTwice ==
    lastPoll.again => lastPoll.after = lastPoll.first

\* C20: once the shutdown event has been emitted no poll cycle starts.
C20_NoPollAfterShutdown ==
    shutdownSeen => (~pollTimer /\ lastOp.op \notin PollOps)

\* The shutdown event came after polls had run, some of them failing.
C20_Witness ==
    /\ lastOp.op = "shutdown"
    /\ consecutiveFailures > 0
    /\ pollsLeft < PollingPolls

\* C21: once startPolling ran, the polling interval is the configured number
\* of seconds limited to the range 10..300, and 30 seconds when the config has
\* no pollingInterval.
C21_IntervalWithinRange ==
    intervalMs # 0 =>
        intervalMs = 1000 * (IF KPollingInterval \in DOMAIN config
                             THEN Min(300, Max(10, config[KPollingInterval]))
                             ELSE 30)

\* C22: levels 0..4 convert to 0, 25, 50, 75, 100 percent, a level converted
\* to percent and back is the same level, every percent in 1..100 converts to
\* a level in 1..4, and a percent of 0 or less converts to level 0.
C22_FanSpeedMapping ==
    conv.done =>
        /\ conv.toPercent = 25 * conv.speed
        /\ conv.back = conv.speed
        /\ conv.percent \in 1..100 => conv.toSpeed \in 1..4
        /\ conv.percent <= 0 => conv.toSpeed = 0

\* A small percentage, which rounds to 0 before the floor, was converted.
C22_Witness ==
    /\ conv.done
    /\ conv.percent = 1
    /\ conv.speed = 4

\* C23: a check armed by a fan-on intent hands a compensating command to the
\* transport only after the debouncer has handed over the command that
\* carries that fan-on.
C23_CompensationAfterFlush ==
    (lastOp.op \in {"lightCheck", "timerCheck"} /\ Transmitted(lastOp.cmds) > 0)
        => lastOp.fired.flushed

\* C24: a poll result overwrites the shadow keys it contains, and a shadow key
\* it does not contain keeps its previous value.
C24_AbsentKeysKept ==
    [][lastOp'.op = "poll" =>
          \A d \in DOMAIN lastOp'.arg :
              /\ \A k \in DOMAIN lastOp'.arg[d] :
                     ~CooldownActive(acc[d]) => Get(acc'[d].state, k, -1) = lastOp'.arg[d][k]
              /\ \A k \in (DOMAIN acc[d].state) \ (DOMAIN lastOp'.arg[d]) :
                     Get(acc'[d].state, k, -1) = acc[d].state[k]]_vars

\* The non-zero speed level the step that led to the primed state showed of
\* hood d, from a speed intent or a poll result; 0 when it showed none.
ObservedSpeed(d) ==
    CASE lastOp'.op = "poll" /\ d \in DOMAIN lastOp'.arg ->
            Get(lastOp'.arg[d], KFanSpeed, 0)
      [] lastOp'.op = "setFanSpeed" /\ lastOp'.dev = d ->
            percentToFanSpeed(lastOp'.arg)
      [] OTHER -> 0

\* C25: every speed intent with a level above 0 and every poll result with a
\* fanSpeed above 0, also one received during the cooldown, sets lastFanSpeed
\* to that level, and nothing else changes lastFanSpeed.
C25_LastSpeedFollowsObserved ==
    [][\A d \in activeAccessories :
          acc'[d].lastFanSpeed =
              IF ObservedSpeed(d) > 0 THEN ObservedSpeed(d) ELSE acc[d].lastFanSpeed]_vars

\* C26: in the first successful poll after the hoods were marked offline,
\* every managed hood's fault indicator is first pushed as no-fault, and no
\* push made while that poll is processed carries the fault value.
C26_FaultClearedFirst ==
    [][(lastOp'.op = "poll" /\ consecutiveFailures >= OFFLINE_THRESHOLD) =>
          \A d \in activeAccessories :
              /\ lastOp'.faults[d] # <<>>
              /\ \A i \in DOMAIN lastOp'.faults[d] : lastOp'.faults[d][i] = NO_FAULT
              /\ acc'[d].hk.StatusFault = NO_FAULT]_vars

\* The cooldown deadline of hood d as the step that leads to the primed state
\* found it, counted from the clock of the primed state.
CooldownBefore(d) ==
    IF lastOp'.op = "advance"
    THEN Max(0, acc[d].commandCooldownUntil - Elapse)
    ELSE acc[d].commandCooldownUntil

\* The step that leads to the primed state handed a command of hood d to the
\* transport.
Dispatched(d) ==
    /\ lastOp'.dev = d
    /\ lastOp'.op \in {"flush", "lightCheck", "timerCheck"}
    /\ Transmitted(lastOp'.cmds) > 0

\* C27: a dispatch at time t leaves the cooldown deadline at exactly
\* t + COMMAND_COOLDOWN_MS, whatever cooldown was running; the deadline is
\* never more than COMMAND_COOLDOWN_MS ahead and never moves backwards.
C27_CooldownResets ==
    [][\A d \in activeAccessories :
          /\ Dispatched(d) =>
                acc'[d].commandCooldownUntil = now + COMMAND_COOLDOWN_MS
          /\ acc'[d].commandCooldownUntil <= now + COMMAND_COOLDOWN_MS
          /\ acc'[d].commandCooldownUntil >= CooldownBefore(d)]_vars

\* A compensating command was dispatched while the cooldown of the debounced
\* command before it was still running.
C27_Witness ==
    /\ lastOp.op = "timerCheck"
    /\ Transmitted(lastOp.cmds) > 0
    /\ lastOp.fired.flushed
    /\ acc[lastOp.dev].commandCooldownUntil = now + COMMAND_COOLDOWN_MS

\* C28: the cooldown deadline changes only in a step that hands a command to
\* the transport while the hood is online: intents, enqueues, flushes and
\* checks of an offline hood and polls leave it as it was.
C28_CooldownOnlyOnDispatch ==
    [][\A d \in activeAccessories :
          acc'[d].commandCooldownUntil # CooldownBefore(d) =>
              Dispatched(d) /\ acc[d].online]_vars

\* The check of an offline hood skipped its command while an earlier cooldown
\* was still running.
C28_Witness ==
    /\ lastOp.op = "lightCheck"
    /\ lastOp.cmds # <<>>
    /\ Transmitted(lastOp.cmds) = 0
    /\ acc[lastOp.dev].commandCooldownUntil > now

\* C29: a timer-on intent that arrives while the auto-timer flag is set clears
\* the flag, after which the timer getter reports the shadow value, and the
\* check scheduled by the fan-on intent that armed the flag transmits no
\* timer-off command afterwards.
C29_TimerOnCancelsCheck ==
    /\ (lastOp.op = "setTimerActive" /\ lastOp.arg = TRUE
            /\ lastOp.pre.suppressAutoTimer) =>
           /\ ~acc[lastOp.dev].suppressAutoTimer
           /\ getTimerOn(acc[lastOp.dev])
                  = (Get(acc[lastOp.dev].state, KTimerEnable, 0) = 1)
    /\ (lastOp.op = "timerCheck" /\ lastOp.fired.timerOn /\ ~lastOp.fired.fanOff) =>
           Transmitted(lastOp.cmds) = 0

\* What an accessory keeps for itself.
Own(a) ==
    [state |-> a.state, pending |-> a.pending,
     commandCooldownUntil |-> a.commandCooldownUntil,
     lastFanSpeed |-> a.lastFanSpeed,
     suppressAutoLight |-> a.suppressAutoLight,
     suppressAutoTimer |-> a.suppressAutoTimer]

\* C30: an intent, a debounced flush or a compensation check on one hood
\* leaves the shadow, pending batch, cooldown deadline, last speed and
\* suppression flags of every other hood of the group as they were, and a
\* poll is applied to each hood according to that hood's own cooldown.
C30_AccessoriesIndependent ==
    [][\A e \in activeAccessories :
          /\ (lastOp'.dev \in Devices \ {e}) => Own(acc'[e]) = Own(acc[e])
          /\ (lastOp'.op = "poll" /\ e \in DOMAIN lastOp'.arg) =>
                 (e \in lastOp'.pushed <=> ~CooldownActive(acc[e]))]_vars

\* A poll found hood 1 in its cooldown and pushed the state of hood 2 only.
C30_Witness ==
    /\ lastOp.op = "poll"
    /\ DOMAIN lastOp.arg = {1, 2}
    /\ CooldownActive(acc[1])
    /\ ~CooldownActive(acc[2])
    /\ lastOp.pushed = {2}

\* C31: the failed poll that brings the failure counter to exactly
\* OFFLINE_THRESHOLD marks every managed hood offline and pushes the fault
\* value to each of them once, a later failure in a row changes no online flag
\* and pushes nothing, and a successful poll leaves the counter at 0.
C31_OfflineSignalledOnce ==
    /\ (lastOp.op = "pollFailure" /\ consecutiveFailures = OFFLINE_THRESHOLD) =>
           \A d \in activeAccessories :
               /\ ~acc[d].online
               /\ lastOp.faults[d] = <<GENERAL_FAULT>>
               /\ acc[d].hk.StatusFault = GENERAL_FAULT
    /\ (lastOp.op = "pollFailure" /\ consecutiveFailures > OFFLINE_THRESHOLD) =>
           /\ lastOp.pushed = {}
           /\ \A d \in activeAccessories : ~acc[d].online /\ lastOp.faults[d] = <<>>
    /\ lastOp.op = "poll" => consecutiveFailures = 0

\* C32: a poll result that arrives for a hood while its debounce timer is
\* armed (an intent was applied and its command not yet dispatched) or while
\* its command cooldown is active is not pushed to the control surface.
C32_NoPushFromIntentToCooldownEnd ==
    lastOp.op = "poll" =>
        \A d \in DOMAIN lastOp.arg :
            (acc[d].timer # NoTimer \/ CooldownActive(acc[d])) =>
                d \notin lastOp.pushed

\* C33: a fan-on intent that arrives while a light-on is in the pending batch
\* leaves the auto-light flag clear, and the check it scheduled hands no
\* light-off to the transport, whatever was polled before it.
C33_PendingLightOnNotCompensated ==
    /\ (lastOp.op = "setFanActive" /\ lastOp.arg = 1
            /\ Get(acc[lastOp.dev].pending, KLightOnOff, 0) = 1) =>
           ~acc[lastOp.dev].suppressAutoLight
    /\ (lastOp.op = "lightCheck" /\ lastOp.fired.lightPending) =>
           Transmitted(lastOp.cmds) = 0

\* C34: every command handed to the transport that sets power to 1 also
\* carries a fan speed level, and that level is one of 1..4.
C34_PowerOnCarriesSpeed ==
    \A i \in DOMAIN lastOp.cmds :
        (lastOp.cmds[i].tx /\ Get(lastOp.cmds[i].params, KOnOff, 0) = 1) =>
            /\ KFanSpeed \in DOMAIN lastOp.cmds[i].params
            /\ lastOp.cmds[i].params[KFanSpeed] \in 1..4

\* C35: a speed intent that finds the shadow fan off leaves the pending batch,
\* the debounce timer, the suppression flags and their checks, the cooldown
\* deadline and the values held by the control surface as they were; it sets
\* the shadow speed to the level and, when the level is above 0, the
\* remembered last speed, and changes no other shadow key.
C35_SpeedWhileOffSilent ==
    [][\A d \in activeAccessories :
          (lastOp'.op = "setFanSpeed" /\ lastOp'.dev = d
                /\ ~Truthy(acc[d].state, KOnOff)) =>
              LET speed == percentToFanSpeed(lastOp'.arg)
              IN  /\ acc'[d].pending = acc[d].pending
                  /\ acc'[d].timer = acc[d].timer
                  /\ acc'[d].timeouts = acc[d].timeouts
                  /\ acc'[d].suppressAutoLight = acc[d].suppressAutoLight
                  /\ acc'[d].suppressAutoTimer = acc[d].suppressAutoTimer
                  /\ acc'[d].commandCooldownUntil = acc[d].commandCooldownUntil
                  /\ acc'[d].hk = acc[d].hk
                  /\ acc'[d].state = Put(acc[d].state, KFanSpeed, speed)
                  /\ acc'[d].lastFanSpeed =
                         IF speed > 0 THEN speed ELSE acc[d].lastFanSpeed]_vars

\* A speed intent with a level above 0 found the fan off while a fan-off
\* command was pending, its debounce timer half run and a cooldown active.
C35_Witness ==
    /\ lastOp.op = "setFanSpeed" /\ lastOp.arg = 100
    /\ ~Truthy(acc[1].state, KOnOff)
    /\ acc[1].pending = [k \in {KOnOff} |-> 0]
    /\ acc[1].timer = DEBOUNCE_MS - Tick
    /\ CooldownActive(acc[1])
    /\ acc[1].lastFanSpeed = 4

\* C36: a timer-on intent sets the shadow duration to the duration the shadow
\* held when that is not 0 and to DEFAULT_TIMER_DURATION otherwise, and leaves
\* timer.enable = 1 pending together with that duration; every command that
\* carries timer.enable = 1 carries a duration, and it is not 0.
C36_TimerOnCarriesDuration ==
    [][/\ \A d \in activeAccessories :
              (lastOp'.op = "setTimerActive" /\ lastOp'.arg = TRUE /\ lastOp'.dev = d) =>
                  LET held == Get(acc[d].state, KTimerValue, 0)
                      duration == IF held # 0 THEN held ELSE DEFAULT_TIMER_DURATION
                  IN  /\ duration # 0
                      /\ Get(acc'[d].state, KTimerValue, 0) = duration
                      /\ Get(acc'[d].pending, KTimerEnable, 0) = 1
                      /\ Get(acc'[d].pending, KTimerValue, 0) = duration
       /\ \A i \in DOMAIN lastOp'.cmds :
              Get(lastOp'.cmds[i].params, KTimerEnable, 0) = 1 =>
                  Get(lastOp'.cmds[i].params, KTimerValue, 0) # 0]_vars

\* The timer was enabled on a hood whose shadow duration was 0, and the
\* command was handed to the transport with the default duration.
C36_Witness ==
    /\ lastOp.op = "flush"
    /\ \E i \in DOMAIN lastOp.cmds :
          /\ lastOp.cmds[i].tx
          /\ Get(lastOp.cmds[i].params, KTimerEnable, 0) = 1
          /\ Get(lastOp.cmds[i].params, KTimerValue, 0) = DEFAULT_TIMER_DURATION

\* C37: the debounce timer of a hood is armed exactly while its pending batch
\* is non-empty, and is then due within DEBOUNCE_MS; the flush it runs leaves
\* the batch empty and the timer disarmed, decides on exactly one command
\* carrying the whole batch (handed to the transport when the hood is online,
\* dropped otherwise), and on none when the batch was empty; and a batch that
\* is pending is eventually flushed.
C37_FlushOncePerBatch ==
    /\ [][\A d \in activeAccessories :
             /\ (acc'[d].pending # Empty) <=> (acc'[d].timer # NoTimer)
             /\ acc'[d].timer # NoTimer => acc'[d].timer \in 0..DEBOUNCE_MS
             /\ (lastOp'.op = "flush" /\ lastOp'.dev = d) =>
                   /\ acc'[d].pending = Empty
                   /\ acc'[d].timer = NoTimer
                   /\ IF acc[d].pending = Empty THEN lastOp'.cmds = <<>>
                      ELSE /\ Len(lastOp'.cmds) = 1
                           /\ lastOp'.cmds[1].params = acc[d].pending
                           /\ lastOp'.cmds[1].tx <=> acc[d].online]_vars
    /\ \A d \in Devices :
           (d \in activeAccessories /\ acc[d].pending # Empty)
               ~> (d \notin activeAccessories \/ acc[d].pending = Empty)

\* The flush of a batch was dropped because the hood was marked offline.
C37_Witness ==
    /\ lastOp.op = "flush"
    /\ Len(lastOp.cmds) = 1
    /\ ~lastOp.cmds[1].tx
    /\ acc[lastOp.dev].pending = Empty
    /\ acc[lastOp.dev].timer = NoTimer

\* C38: the responses of the polling loop's requests are applied to the
\* shadow in the order in which the requests were made.
C38_ResponsesInRequestOrder ==
    \A i, j \in DOMAIN requests.applied :
        i < j => requests.applied[i] < requests.applied[j]

\* C39: once discoverDevices has returned, also after its request failed, the
\* polling interval is armed.
C39_PollingStartsAfterFailedDiscovery ==
    discovery # "pending" => pollTimer
====
